---- MODULE Spec2Model ----
(***************************************************************************)
(* Model of apyori.py: the TransactionManager (inverted index), the        *)
(* candidate generator, the level-wise support scanner                     *)
(* (gen_support_records), the rule deriver (gen_ordered_statistics) and    *)
(* the apriori pipeline with its command-line entry (parse_args / main).   *)
(*                                                                         *)
(* Items are small integers.  A Python float that is a ratio of counts is  *)
(* kept as an exact fraction <<numerator, denominator>> in lowest terms,   *)
(* so that equality of fractions is equality of values; <<0, 0>> stands    *)
(* for a raised ZeroDivisionError.  Rounding of IEEE doubles is not        *)
(* modelled.                                                               *)
(***************************************************************************)
EXTENDS Integers, Sequences, FiniteSets, TLC

VARIABLES
    entry,                \* which function the caller invoked
    transactions,         \* the transaction list handed in, in call order
    transaction_manager,  \* the TransactionManager object (its three fields)
    min_support,          \* threshold, a fraction
    max_length,           \* <<>> for None, <<L>> for the integer L
    min_confidence,       \* threshold, a fraction
    pc,                   \* position of the running code
    candidates,           \* gen_support_records: candidates of this level
    idx,                  \* gen_support_records: position of the for loop
    length,               \* gen_support_records: the level
    relations,            \* gen_support_records: accepted itemsets of the level
    support_records,      \* every SupportRecord yielded so far, in order
    support_record,       \* apriori: the loop variable (<<>> before the first)
    ordered_statistics,   \* apriori: statistics derived for support_record
    relation_records,     \* every RelationRecord yielded so far, in order
    generator_calls,      \* the lengths the candidate generator was called with
    num_queries,          \* number of calc_support calls made so far
    exit_by,              \* how the while loop ended: "", "max_length", "empty"
    error                 \* "", "ValueError", "ZeroDivisionError"

vars == <<entry, transactions, transaction_manager, min_support, max_length,
          min_confidence, pc, candidates, idx, length, relations,
          support_records, support_record, ordered_statistics,
          relation_records, generator_calls, num_queries, exit_by, error>>

----------------------------------------------------------------------------
(* Bounds and input universes *)

\* Items of the mining runs.
Items == {1, 2, 3}
\* Longest transaction list handed to a mining run.
MaxTransactions == 2
\* Number of add_transaction calls and longest transaction of the index runs.
MaxCalls == 2
MaxTransactionLen == 2
\* Items of the candidate-generator runs.
NumCandidateItems == 4
CandidateItems == 1 .. NumCandidateItems

MinSupports == {<<0, 1>>, <<1, 10>>, <<1, 2>>, <<1, 1>>}
MaxLengths == {<<>>, <<1>>, <<2>>}
MinConfidences == {<<0, 1>>, <<1, 2>>, <<1, 1>>}
Entries == {"gen_support_records", "apriori", "main"}

----------------------------------------------------------------------------
(* Auxiliary: sequences, sets, fractions *)

\* F applied to the value of e, with e evaluated once.
Once(e, F(_)) == CHOOSE r \in {F(v) : v \in {e}} : TRUE

Range(s) == {s[i] : i \in 1 .. Len(s)}

SeqsUpTo(S, n) == UNION {[1 .. k -> S] : k \in 0 .. n}

Min(S) == CHOOSE x \in S : \A y \in S : x <= y

RECURSIVE SetToSeq(_)
\* Iteration over a Python set / frozenset of small integers: ascending.
SetToSeq(S) ==
    IF S = {} THEN <<>>
    ELSE Once(Min(S), LAMBDA m :
             Once(S \ {m}, LAMBDA T : <<m>> \o SetToSeq(T)))

RECURSIVE GCD(_, _)
GCD(a, b) == IF b = 0 THEN a ELSE GCD(b, a % b)

Abs(n) == IF n < 0 THEN -n ELSE n

ZeroDivisionError == <<0, 0>>

\* The float n / d; d = 0 raises.
Float(n, d) ==
    IF d = 0 THEN ZeroDivisionError
    ELSE LET g == GCD(Abs(n), Abs(d))
             s == IF d < 0 THEN -1 ELSE 1
         IN  <<(s * n) \div g, (s * d) \div g>>

\* x / y on floats.
Div(x, y) ==
    IF x = ZeroDivisionError \/ y = ZeroDivisionError \/ y[1] = 0
    THEN ZeroDivisionError
    ELSE Float(x[1] * y[2], x[2] * y[1])

Less(x, y) == x[1] * y[2] < y[1] * x[2]
GreaterEq(x, y) == ~Less(x, y)

RECURSIVE combinations(_, _)
\* itertools.combinations(s, r): the r-length subsequences of s, in
\* lexicographic order of positions; none when r > Len(s).
combinations(s, r) ==
    IF r = 0 THEN << <<>> >>
    ELSE IF Len(s) < r THEN <<>>
    ELSE Once(Tail(s), LAMBDA t :
             Once(combinations(t, r - 1), LAMBDA rest :
                 [i \in 1 .. Len(rest) |-> <<Head(s)>> \o rest[i]])
             \o combinations(t, r))

----------------------------------------------------------------------------
(* TransactionManager *)

EmptyManager ==
    [num_transaction |-> 0, items |-> <<>>, transaction_index_map |-> <<>>]

\* Mutant of add_item: the item is appended to the list on every sight.
add_item_always_append(tm, item) ==
    LET m == tm.transaction_index_map
        m1 == IF item \in DOMAIN m THEN m
              ELSE [i \in (DOMAIN m) \cup {item} |->
                        IF i = item THEN {} ELSE m[i]]
    IN  [num_transaction |-> tm.num_transaction,
         items |-> Append(tm.items, item),
         transaction_index_map |->
             [m1 EXCEPT ![item] = @ \cup {tm.num_transaction}]]

\* One iteration of the loop of add_transaction.
add_item(tm, item) ==
    LET m == tm.transaction_index_map
        known == item \in DOMAIN m
        m1 == IF known THEN m
              ELSE [i \in (DOMAIN m) \cup {item} |->
                        IF i = item THEN {} ELSE m[i]]
    IN  [num_transaction |-> tm.num_transaction,
         items |-> IF known THEN tm.items ELSE Append(tm.items, item),
         transaction_index_map |->
             [m1 EXCEPT ![item] = @ \cup {tm.num_transaction}]]

RECURSIVE add_items(_, _)
add_items(tm, transaction) ==
    IF transaction = <<>> THEN tm
    ELSE Once(add_item(tm, Head(transaction)), LAMBDA next :
             Once(Tail(transaction), LAMBDA rest : add_items(next, rest)))

add_transaction(tm, transaction) ==
    LET after == add_items(tm, transaction)
    IN  [after EXCEPT !.num_transaction = @ + 1]

RECURSIVE add_all(_, _)
add_all(tm, txs) ==
    IF txs = <<>> THEN tm
    ELSE Once(add_transaction(tm, Head(txs)), LAMBDA next :
             Once(Tail(txs), LAMBDA rest : add_all(next, rest)))

\* TransactionManager.__init__ / TransactionManager.create on a list.
TransactionManager(txs) == add_all(EmptyManager, txs)

\* Mutant of calc_support: the posting sets are united, not intersected.
calc_support_union(tm, items) ==
    IF items = {} THEN Float(1, 1)
    ELSE IF \E item \in items : item \notin DOMAIN tm.transaction_index_map
    THEN Float(0, 1)
    ELSE Float(Cardinality(UNION {tm.transaction_index_map[i] : i \in items}),
               tm.num_transaction)

calc_support(tm, items) ==
    IF items = {} THEN Float(1, 1)
    ELSE IF \E item \in items : item \notin DOMAIN tm.transaction_index_map
    THEN Float(0, 1)
    ELSE LET sum_indexes ==
                 {t \in UNION {tm.transaction_index_map[i] : i \in items} :
                      \A i \in items : t \in tm.transaction_index_map[i]}
         IN  Float(Cardinality(sum_indexes), tm.num_transaction)

initial_candidates(tm) == [i \in 1 .. Len(tm.items) |-> {tm.items[i]}]

----------------------------------------------------------------------------
(* Candidate generator *)

\* frozenset(x) for each x of a list of tuples.
Frozensets(tuples) ==
    Once(tuples, LAMBDA ts : [i \in 1 .. Len(ts) |-> Range(ts[i])])

\* Mutant of check_subsets: the subsets looked up are one item too short.
check_subsets_short(prev_candidates, target_length, candidate) ==
    LET candidate_subsets ==
            Frozensets(combinations(SetToSeq(candidate), target_length - 2))
    IN  \A i \in 1 .. Len(candidate_subsets) :
            candidate_subsets[i] \in prev_candidates

\* The closure check_subsets of create_next_candidates.
check_subsets(prev_candidates, target_length, candidate) ==
    LET candidate_subsets ==
            Frozensets(combinations(SetToSeq(candidate), target_length - 1))
    IN  \A i \in 1 .. Len(candidate_subsets) :
            candidate_subsets[i] \in prev_candidates

\* Mutant of create_next_candidates: the subset check starts one level late.
create_next_candidates_late_check(prev_candidates, target_length) ==
    LET items == UNION prev_candidates
        all == Frozensets(combinations(SetToSeq(items), target_length))
        Keep(candidate) ==
            ~(target_length > 3
                /\ ~\A x \in candidate : (candidate \ {x}) \in prev_candidates)
    IN  SelectSeq(all, Keep)

\* Mutant of create_next_candidates: the combinations are one item short.
create_next_candidates_short(prev_candidates, target_length) ==
    Frozensets(combinations(SetToSeq(UNION prev_candidates), target_length - 1))

create_next_candidates(prev_candidates, target_length) ==
    LET items == UNION prev_candidates
        all == Frozensets(combinations(SetToSeq(items), target_length))
        Keep(candidate) ==
            ~(target_length > 2 /\ ~check_subsets(prev_candidates, target_length, candidate))
    IN  SelectSeq(all, Keep)

----------------------------------------------------------------------------
(* Support scanner: the pieces of gen_support_records *)

SupportRecord(items, support) == [items |-> items, support |-> support]

\* "support < min_support": the candidate is skipped.
below_min_support(support, threshold) == Less(support, threshold)

\* Mutant of exceeds_max_length: the loop breaks one level late.
exceeds_max_length_late(bound, level) ==
    /\ bound # <<>>
    /\ bound[1] # 0
    /\ level > bound[1] + 1

\* "max_length and length > max_length": the loop breaks.
exceeds_max_length(bound, level) ==
    /\ bound # <<>>
    /\ bound[1] # 0
    /\ level > bound[1]

----------------------------------------------------------------------------
(* Rule deriver and the filter of apriori *)

OrderedStatistic(items_base, items_add, confidence, lift) ==
    [items_base |-> items_base, items_add |-> items_add,
     confidence |-> confidence, lift |-> lift]

\* Mutant of combination_sets: an itemset of fewer than 2 items gets none.
combination_sets_guarded(items) ==
    IF Cardinality(items) < 2 THEN <<>>
    ELSE Frozensets(combinations(SetToSeq(items), Cardinality(items) - 1))

\* Mutant of combination_sets: the antecedents are the single items.
combination_sets_single(items) ==
    Frozensets(combinations(SetToSeq(items), 1))

\* The list of (m-1)-item antecedents gen_ordered_statistics enumerates.
combination_sets(items) ==
    Frozensets(combinations(SetToSeq(items), Cardinality(items) - 1))

\* Every statistic the generator computes; one whose confidence or lift is
\* ZeroDivisionError is where the generator raises.
gen_ordered_statistics(tm, record) ==
    LET Stat(items_base) ==
            LET items_add == record.items \ items_base
            IN  Once(Div(record.support, calc_support(tm, items_base)),
                     LAMBDA confidence :
                         OrderedStatistic(
                             items_base, items_add, confidence,
                             Div(confidence, calc_support(tm, items_add))))
    IN  Once(combination_sets(record.items), LAMBDA bases :
             [i \in 1 .. Len(bases) |-> Stat(bases[i])])

Raises(stat) ==
    stat.confidence = ZeroDivisionError \/ stat.lift = ZeroDivisionError

AnyRaises(stats) == \E i \in 1 .. Len(stats) : Raises(stats[i])

\* calc_support calls made while consuming stats, up to the first raise.
RECURSIVE QueriesOf(_)
QueriesOf(stats) ==
    IF stats = <<>> THEN 0
    ELSE IF Head(stats).confidence = ZeroDivisionError THEN 1
    ELSE IF Head(stats).lift = ZeroDivisionError THEN 2
    ELSE Once(Tail(stats), LAMBDA rest : 2 + QueriesOf(rest))

\* Mutant of filter_ordered_statistics: ">" in place of ">=".
filter_ordered_statistics_strict(stats, threshold) ==
    LET Passes(x) == Less(threshold, x.confidence)
    IN  SelectSeq(stats, Passes)

\* "[x for x in ordered_statistics if x.confidence >= min_confidence]"
filter_ordered_statistics(stats, threshold) ==
    LET Passes(x) == GreaterEq(x.confidence, threshold)
    IN  SelectSeq(stats, Passes)

RelationRecord(items, support, stats) ==
    [items |-> items, support |-> support, ordered_statistics |-> stats]

\* parse_args: "if args.min_support <= 0: raise ValueError".
rejects_min_support(threshold) == ~Less(<<0, 1>>, threshold)

----------------------------------------------------------------------------
(* The mining runs: gen_support_records driven alone, apriori, main *)

\* One ascending tuple per subset of Items.
SetTransactions == {SetToSeq(S) : S \in SUBSET Items}

Init ==
    /\ entry \in Entries
    /\ transactions \in SeqsUpTo(SetTransactions, MaxTransactions)
    /\ transaction_manager = EmptyManager
    /\ min_support \in MinSupports
    /\ max_length \in MaxLengths
    /\ min_confidence \in
           IF entry = "gen_support_records" THEN {<<0, 1>>} ELSE MinConfidences
    /\ pc = "start"
    /\ candidates = <<>>
    /\ idx = 1
    /\ length = 1
    /\ relations = {}
    /\ support_records = <<>>
    /\ support_record = <<>>
    /\ ordered_statistics = <<>>
    /\ relation_records = <<>>
    /\ generator_calls = <<>>
    /\ num_queries = 0
    /\ exit_by = ""
    /\ error = ""

\* "while candidates:" evaluated on the candidate list next.
EnterLevel(next) ==
    /\ candidates' = next
    /\ idx' = 1
    /\ IF next = <<>>
       THEN /\ pc' = "done"
            /\ exit_by' = "empty"
            /\ relations' = relations
       ELSE /\ pc' = "for"
            /\ exit_by' = exit_by
            /\ relations' = {}

\* main: parse_args rejects the configuration before anything is read.
ParseArgsRaises ==
    /\ pc = "start"
    /\ entry = "main"
    /\ rejects_min_support(min_support)
    /\ pc' = "raised"
    /\ error' = "ValueError"
    /\ UNCHANGED <<entry, transactions, transaction_manager, min_support,
                   max_length, min_confidence, candidates, idx, length,
                   relations, support_records, support_record,
                   ordered_statistics, relation_records, generator_calls,
                   num_queries, exit_by>>

\* The index is built and gen_support_records runs up to its first level.
Call ==
    /\ pc = "start"
    /\ entry = "main" => ~rejects_min_support(min_support)
    /\ \E tm \in {TransactionManager(transactions)} :
           /\ transaction_manager' = tm
           /\ EnterLevel(initial_candidates(tm))
    /\ length' = 1
    /\ UNCHANGED <<entry, transactions, min_support, max_length,
                   min_confidence, support_records, support_record,
                   ordered_statistics, relation_records, generator_calls,
                   num_queries, error>>

\* The body of the for loop on a candidate below the threshold.
ScanSkip ==
    /\ pc = "for"
    /\ idx <= Len(candidates)
    /\ below_min_support(calc_support(transaction_manager, candidates[idx]),
                         min_support)
    /\ idx' = idx + 1
    /\ num_queries' = num_queries + 1
    /\ UNCHANGED <<entry, transactions, transaction_manager, min_support,
                   max_length, min_confidence, pc, candidates, length,
                   relations, support_records, support_record,
                   ordered_statistics, relation_records, generator_calls,
                   exit_by, error>>

\* The body of the for loop on a candidate that is retained and yielded.
ScanYield ==
    /\ pc = "for"
    /\ idx <= Len(candidates)
    /\ \E support \in {calc_support(transaction_manager, candidates[idx])} :
        \E record \in {SupportRecord(candidates[idx], support)} :
           /\ ~below_min_support(support, min_support)
           /\ relations' = relations \cup {candidates[idx]}
           /\ support_records' = Append(support_records, record)
           /\ IF entry = "gen_support_records"
              THEN pc' = "for" /\ support_record' = support_record
              ELSE pc' = "derive" /\ support_record' = record
    /\ idx' = idx + 1
    /\ num_queries' = num_queries + 1
    /\ UNCHANGED <<entry, transactions, transaction_manager, min_support,
                   max_length, min_confidence, candidates, length,
                   ordered_statistics, relation_records, generator_calls,
                   exit_by, error>>

\* The body of the loop of apriori on the record just yielded.
Derive ==
    /\ pc = "derive"
    /\ \E stats \in {gen_ordered_statistics(transaction_manager,
                                              support_record)} :
        \E filtered \in {filter_ordered_statistics(stats, min_confidence)} :
           /\ num_queries' = num_queries + QueriesOf(stats)
           /\ IF AnyRaises(stats)
              THEN /\ pc' = "raised"
                   /\ error' = "ZeroDivisionError"
                   /\ UNCHANGED <<ordered_statistics, relation_records>>
              ELSE /\ pc' = "for"
                   /\ error' = error
                   /\ ordered_statistics' = stats
                   /\ relation_records' =
                          IF filtered = <<>> THEN relation_records
                          ELSE Append(relation_records,
                                      RelationRecord(support_record.items,
                                                     support_record.support,
                                                     filtered))
    /\ UNCHANGED <<entry, transactions, transaction_manager, min_support,
                   max_length, min_confidence, candidates, idx, length,
                   relations, support_records, support_record,
                   generator_calls, exit_by>>

\* End of the for loop: the level is over and the bound stops the scan.
LevelBreak ==
    /\ pc = "for"
    /\ idx > Len(candidates)
    /\ exceeds_max_length(max_length, length + 1)
    /\ length' = length + 1
    /\ pc' = "done"
    /\ exit_by' = "max_length"
    /\ UNCHANGED <<entry, transactions, transaction_manager, min_support,
                   max_length, min_confidence, candidates, idx, relations,
                   support_records, support_record, ordered_statistics,
                   relation_records, generator_calls, num_queries, error>>

\* End of the for loop: the next level's candidates are generated.
LevelNext ==
    /\ pc = "for"
    /\ idx > Len(candidates)
    /\ ~exceeds_max_length(max_length, length + 1)
    /\ length' = length + 1
    /\ generator_calls' = Append(generator_calls, length + 1)
    /\ \E next \in {create_next_candidates(relations, length + 1)} :
           EnterLevel(next)
    /\ UNCHANGED <<entry, transactions, transaction_manager, min_support,
                   max_length, min_confidence, support_records,
                   support_record, ordered_statistics, relation_records,
                   num_queries, error>>

Next ==
    \/ ParseArgsRaises
    \/ Call
    \/ ScanSkip
    \/ ScanYield
    \/ Derive
    \/ LevelBreak
    \/ LevelNext

Spec == Init /\ [][Next]_vars

----------------------------------------------------------------------------
(* The scanner runs: gen_support_records driven alone to exhaustion *)

ScanInit == Init /\ entry = "gen_support_records"

ScanNext ==
    \/ Call
    \/ ScanSkip
    \/ ScanYield
    \/ LevelBreak
    \/ LevelNext

ScanSpec == ScanInit /\ [][ScanNext]_vars

\* The code is sequential: a step that can be taken is taken.
FairScanSpec == ScanSpec /\ WF_vars(ScanNext)

----------------------------------------------------------------------------
(* The index runs: add_transaction called on an empty TransactionManager *)

IndexInit ==
    /\ entry = "add_transaction"
    /\ transactions = <<>>
    /\ transaction_manager = EmptyManager
    /\ min_support = <<0, 1>>
    /\ max_length = <<>>
    /\ min_confidence = <<0, 1>>
    /\ pc = "build"
    /\ candidates = <<>>
    /\ idx = 1
    /\ length = 1
    /\ relations = {}
    /\ support_records = <<>>
    /\ support_record = <<>>
    /\ ordered_statistics = <<>>
    /\ relation_records = <<>>
    /\ generator_calls = <<>>
    /\ num_queries = 0
    /\ exit_by = ""
    /\ error = ""

AddTransaction ==
    /\ pc = "build"
    /\ Len(transactions) < MaxCalls
    /\ \E transaction \in SeqsUpTo(Items, MaxTransactionLen) :
           /\ transaction_manager' =
                  add_transaction(transaction_manager, transaction)
           /\ transactions' = Append(transactions, transaction)
    /\ UNCHANGED <<entry, min_support, max_length, min_confidence, pc,
                   candidates, idx, length, relations, support_records,
                   support_record, ordered_statistics, relation_records,
                   generator_calls, num_queries, exit_by, error>>

IndexSpec == IndexInit /\ [][AddTransaction]_vars

----------------------------------------------------------------------------
(* The generator runs: create_next_candidates on an accepted set *)

KSubsets(S, k) == {X \in SUBSET S : Cardinality(X) = k}

CandInit ==
    /\ entry = "create_next_candidates"
    /\ transactions = <<>>
    /\ transaction_manager = EmptyManager
    /\ min_support = <<0, 1>>
    /\ max_length = <<>>
    /\ min_confidence = <<0, 1>>
    /\ pc = "generate"
    /\ candidates = <<>>
    /\ idx = 1
    /\ length \in 2 .. NumCandidateItems
    /\ relations \in SUBSET KSubsets(CandidateItems, length - 1)
    /\ support_records = <<>>
    /\ support_record = <<>>
    /\ ordered_statistics = <<>>
    /\ relation_records = <<>>
    /\ generator_calls = <<>>
    /\ num_queries = 0
    /\ exit_by = ""
    /\ error = ""

CreateNextCandidates ==
    /\ pc = "generate"
    /\ candidates' = create_next_candidates(relations, length)
    /\ generator_calls' = Append(generator_calls, length)
    /\ pc' = "generated"
    /\ UNCHANGED <<entry, transactions, transaction_manager, min_support,
                   max_length, min_confidence, idx, length, relations,
                   support_records, support_record, ordered_statistics,
                   relation_records, num_queries, exit_by, error>>

CandSpec == CandInit /\ [][CreateNextCandidates]_vars

----------------------------------------------------------------------------
(* What the transaction list itself says, without the index *)

TrueCount(X) ==
    Cardinality({t \in 1 .. Len(transactions) : X \subseteq Range(transactions[t])})

TrueSupport(X) == Float(TrueCount(X), Len(transactions))

SeenItems == UNION {Range(transactions[t]) : t \in 1 .. Len(transactions)}

Zero == <<0, 1>>
One == <<1, 1>>

\* support(X) >= min_support, on counts.
Frequent(X) ==
    /\ Len(transactions) > 0
    /\ TrueCount(X) * min_support[2] >= min_support[1] * Len(transactions)

EmittedItemsets == {support_records[i].items : i \in 1 .. Len(support_records)}

NoItemsetTwice ==
    \A i, j \in 1 .. Len(support_records) :
        support_records[i].items = support_records[j].items => i = j

----------------------------------------------------------------------------
(* C1 *)

\* C1: with min_support > 0 and no max_length, gen_support_records emits
\* only frequent itemsets, each once and with its true support, and when it
\* has finished it has emitted every non-empty frequent itemset over the
\* registered items.
C1_ExactlyFrequentItemsets ==
    (pc # "start" /\ Less(Zero, min_support) /\ max_length = <<>>) =>
        /\ NoItemsetTwice
        /\ \A i \in 1 .. Len(support_records) :
               /\ support_records[i].items # {}
               /\ Frequent(support_records[i].items)
               /\ support_records[i].support =
                      TrueSupport(support_records[i].items)
        /\ pc = "done" =>
               EmittedItemsets =
                   {X \in (SUBSET SeenItems) \ {{}} : Frequent(X)}

C1_Witness ==
    /\ pc = "done"
    /\ Less(Zero, min_support)
    /\ max_length = <<>>
    /\ 3 \in Range(generator_calls)
    /\ \E X \in EmittedItemsets : Cardinality(X) = 2
    /\ \E X \in KSubsets(SeenItems, 2) : ~Frequent(X)

----------------------------------------------------------------------------
(* C7 *)

\* C7: with max_length = L, a positive integer, no yielded itemset has more
\* than L items and the candidate generator is never called with a length
\* above L; with L = 1 it is never called at all.
C7_MaxLengthRespected ==
    (max_length # <<>> /\ max_length[1] >= 1) =>
        /\ \A i \in 1 .. Len(support_records) :
               Cardinality(support_records[i].items) <= max_length[1]
        /\ \A i \in 1 .. Len(generator_calls) :
               generator_calls[i] <= max_length[1]
        /\ max_length[1] = 1 => generator_calls = <<>>

C7_Witness ==
    /\ max_length = <<2>>
    /\ pc = "done"
    /\ exit_by = "max_length"
    /\ generator_calls = <<2>>
    /\ Less(Zero, min_support)
    /\ Frequent(Items)
    /\ \E X \in EmittedItemsets : Cardinality(X) = 2

----------------------------------------------------------------------------
(* C8 *)

\* C8: for k >= 2 and a set P of (k-1)-itemsets, create_next_candidates(P, k)
\* returns exactly the k-itemsets over the items of P all of whose
\* (k-1)-subsets are in P, none of them twice.
C8_CandidatesExact ==
    pc = "generated" =>
        /\ Range(candidates) =
               {X \in KSubsets(UNION relations, length) :
                    \A x \in X : (X \ {x}) \in relations}
        /\ Cardinality(Range(candidates)) = Len(candidates)

C8_Witness ==
    /\ pc = "generated"
    /\ length = 3
    /\ candidates # <<>>
    /\ \E X \in KSubsets(UNION relations, 3) : X \notin Range(candidates)

----------------------------------------------------------------------------
(* C9 *)

\* Position of the first occurrence of item in the transactions laid end
\* to end.
RECURSIVE Flatten(_)
Flatten(txs) == IF txs = <<>> THEN <<>> ELSE Head(txs) \o Flatten(Tail(txs))

FirstSeen(item) ==
    Min({n \in 1 .. Len(Flatten(transactions)) : Flatten(transactions)[n] = item})

\* C9: after any sequence of add_transaction calls the counter is the number
\* of calls, the posting set of an item holds exactly the 0-based ids of the
\* transactions that contained it, and the item list holds every item seen
\* once, in first-seen order.
C9_IndexInvariant ==
    LET tm == transaction_manager
    IN  /\ tm.num_transaction = Len(transactions)
        /\ DOMAIN tm.transaction_index_map = SeenItems
        /\ \A item \in SeenItems :
               tm.transaction_index_map[item] =
                   {t - 1 : t \in {u \in 1 .. Len(transactions) :
                                       item \in Range(transactions[u])}}
        /\ Range(tm.items) = SeenItems
        /\ Len(tm.items) = Cardinality(SeenItems)
        /\ \A a, b \in 1 .. Len(tm.items) :
               a < b => FirstSeen(tm.items[a]) < FirstSeen(tm.items[b])

C9_Witness ==
    /\ Len(transactions) = 2
    /\ transactions[1] = <<>>
    /\ transactions[2] = <<2, 2>>
    /\ transaction_manager.items = <<2>>

----------------------------------------------------------------------------
(* The loop of apriori, seen from outside *)

\* ordered_statistics holds the statistics of support_record.
Derived == pc \in {"for", "done"} /\ support_record # <<>>

\* Number of yielded SupportRecords the loop of apriori has finished with.
DerivedCount ==
    IF entry = "gen_support_records" THEN 0
    ELSE IF pc = "derive" \/ error = "ZeroDivisionError"
    THEN Len(support_records) - 1
    ELSE Len(support_records)

HasRelationRecord(itemset) ==
    \E j \in 1 .. Len(relation_records) : relation_records[j].items = itemset

StatPairs(stats) ==
    {<<stats[i].items_base, stats[i].items_add>> : i \in 1 .. Len(stats)}

----------------------------------------------------------------------------
(* C2 *)

\* C2 as stated: a SupportRecord with fewer than 2 items gets no
\* OrderedStatistic, and no RelationRecord is emitted for a 1-itemset.
C2_NoStatisticBelowTwoItems ==
    /\ (Derived /\ Cardinality(support_record.items) < 2) =>
           ordered_statistics = <<>>
    /\ \A j \in 1 .. Len(relation_records) :
           Cardinality(relation_records[j].items) >= 2

\* C2 amended: a SupportRecord with exactly one item gets exactly one
\* OrderedStatistic (empty antecedent, the itemset as consequent, confidence
\* equal to the record's support, lift 1), and apriori emits a RelationRecord
\* for a 1-itemset exactly when its support >= min_confidence.
C2_OneStatisticForSingleton ==
    /\ (Derived /\ Cardinality(support_record.items) = 1) =>
           ordered_statistics =
               << OrderedStatistic({}, support_record.items,
                                   support_record.support, One) >>
    /\ \A i \in 1 .. DerivedCount :
           Cardinality(support_records[i].items) = 1 =>
               (HasRelationRecord(support_records[i].items)
                    <=> GreaterEq(TrueSupport(support_records[i].items),
                                  min_confidence))

C2_Witness ==
    /\ entry = "apriori"
    /\ transactions = << <<1>> >>
    /\ min_support = <<1, 10>>
    /\ pc = "done"
    /\ support_records = << SupportRecord({1}, One) >>
    /\ Len(relation_records) = 1
    /\ relation_records[1].items = {1}

----------------------------------------------------------------------------
(* C3 *)

\* C3 as stated: apriori with min_support <= 0 ends in a configuration error
\* before any support query, with no record produced.
C3_RejectedBeforeScanning ==
    (entry \in {"apriori", "main"} /\ ~Less(Zero, min_support) /\ pc # "start")
        => /\ error = "ValueError"
           /\ num_queries = 0
           /\ support_records = <<>>
           /\ relation_records = <<>>

----------------------------------------------------------------------------
(* C4 *)

ProperSplits(itemset) ==
    {<<A, itemset \ A>> : A \in (SUBSET itemset) \ {{}, itemset}}

RECURSIVE Pow2(_)
Pow2(n) == IF n = 0 THEN 1 ELSE 2 * Pow2(n - 1)

\* C4 as stated: for an itemset of m >= 2 items the (antecedent, consequent)
\* pairs are all 2^m - 2 splits into two non-empty parts, each once.
C4_AllSplits ==
    (Derived /\ Cardinality(support_record.items) >= 2) =>
        /\ StatPairs(ordered_statistics) = ProperSplits(support_record.items)
        /\ Len(ordered_statistics) = Pow2(Cardinality(support_record.items)) - 2

\* C4 amended: for an itemset of m >= 2 items the pairs are exactly the m
\* splits whose antecedent has m-1 items and whose consequent is the one
\* remaining item, each once, disjoint and with union the itemset.
C4_SplitsWithSingleConsequent ==
    (Derived /\ Cardinality(support_record.items) >= 2) =>
        /\ StatPairs(ordered_statistics) =
               {<<support_record.items \ {x}, {x}>> : x \in support_record.items}
        /\ Len(ordered_statistics) = Cardinality(support_record.items)
        /\ \A i \in 1 .. Len(ordered_statistics) :
               /\ ordered_statistics[i].items_base # {}
               /\ ordered_statistics[i].items_add # {}
               /\ ordered_statistics[i].items_base
                      \cap ordered_statistics[i].items_add = {}
               /\ ordered_statistics[i].items_base
                      \cup ordered_statistics[i].items_add = support_record.items

C4_Witness ==
    /\ Derived
    /\ support_record.items = {1, 2, 3}
    /\ Len(ordered_statistics) = 3

----------------------------------------------------------------------------
(* C5 *)

\* The positions of stats whose confidence reaches min_confidence.
PassingPositions(stats) ==
    {i \in 1 .. Len(stats) : ~Less(stats[i].confidence, min_confidence)}

\* stats restricted to the positions in keep, order kept.
Restrict(stats, keep) ==
    [n \in 1 .. Cardinality(keep) |->
        stats[CHOOSE i \in keep : Cardinality({j \in keep : j <= i}) = n]]

RECURSIVE ExpectedRelationRecords(_)
\* The RelationRecords due for the first k yielded SupportRecords.
ExpectedRelationRecords(k) ==
    IF k = 0 THEN <<>>
    ELSE LET record == support_records[k]
             stats == gen_ordered_statistics(transaction_manager, record)
             keep == PassingPositions(stats)
         IN  IF keep = {} THEN ExpectedRelationRecords(k - 1)
             ELSE Append(ExpectedRelationRecords(k - 1),
                         RelationRecord(record.items, record.support,
                                        Restrict(stats, keep)))

\* C5: the RelationRecords emitted are, in scanner order, those of the
\* SupportRecords with at least one statistic of confidence >= min_confidence,
\* each with the record's itemset and support and exactly its passing
\* statistics.
C5_OutputIsFilteredSubsequence ==
    relation_records = ExpectedRelationRecords(DerivedCount)

C5_Witness ==
    /\ pc = "done"
    /\ entry = "apriori"
    /\ Len(relation_records) > 0
    /\ Len(relation_records) < Len(support_records)
    /\ \E j \in 1 .. Len(relation_records) :
           /\ Cardinality(relation_records[j].items) = 2
           /\ Len(relation_records[j].ordered_statistics) = 1

----------------------------------------------------------------------------
(* C6 *)

\* C6: in apriori with min_support > 0 no division by zero happens, and for
\* every statistic derived the antecedent's and the consequent's supports
\* are > 0, the antecedent's support is at least the itemset's, and the
\* confidence is support(itemset) / support(antecedent), within [0, 1].
C6_ConfidenceWellDefined ==
    (entry # "gen_support_records" /\ Less(Zero, min_support)) =>
        /\ error # "ZeroDivisionError"
        /\ Derived =>
               \A i \in 1 .. Len(ordered_statistics) :
                   LET stat == ordered_statistics[i]
                       base == calc_support(transaction_manager, stat.items_base)
                       add == calc_support(transaction_manager, stat.items_add)
                   IN  /\ Less(Zero, base)
                       /\ Less(Zero, add)
                       /\ GreaterEq(base, support_record.support)
                       /\ TrueCount(stat.items_base)
                              >= TrueCount(support_record.items)
                       /\ TrueCount(stat.items_base) > 0
                       /\ stat.confidence =
                              Float(TrueCount(support_record.items),
                                    TrueCount(stat.items_base))
                       /\ GreaterEq(stat.confidence, Zero)
                       /\ GreaterEq(One, stat.confidence)

C6_Witness ==
    /\ entry = "apriori"
    /\ Less(Zero, min_support)
    /\ Derived
    /\ Cardinality(support_record.items) = 2
    /\ \E i \in 1 .. Len(ordered_statistics) :
           ordered_statistics[i].confidence = <<1, 2>>

----------------------------------------------------------------------------
(* C10 *)

\* C10: driven to exhaustion, the level-wise loop comes to an end, by the
\* max_length bound or by an empty candidate list; the level never exceeds
\* the number of distinct items plus one; with no transaction the scan ends
\* at once, with nothing yielded and no error.
C10_ScanTerminates ==
    /\ [](length <= Len(transaction_manager.items) + 1)
    /\ <>(pc = "done")
    /\ [](pc = "done" =>
            \/ exit_by = "max_length" /\ exceeds_max_length(max_length, length)
            \/ exit_by = "empty" /\ candidates = <<>>)
    /\ []((transactions = <<>> /\ pc # "start") =>
            /\ pc = "done"
            /\ length = 1
            /\ support_records = <<>>
            /\ num_queries = 0)
    /\ [](error = "")

C10_Witness ==
    /\ pc = "done"
    /\ exit_by = "empty"
    /\ max_length = <<>>
    /\ min_support = Zero
    /\ length = Len(transaction_manager.items) + 1
    /\ Len(transaction_manager.items) = 3

====
